---- MODULE Spec2Model ----
(***************************************************************************)
(* Model of the xmx-email support pipeline: the approve/send handlers over *)
(* the llm_responses table, the three re-implementations of the            *)
(* process-email pipeline, the OAuth token loader, the in-memory TTL cache *)
(* of the Gmail service and the fixed-window rate limiter.                 *)
(*                                                                         *)
(* Time is a discrete clock `now` (the value Date.now() returns); one tick *)
(* stands for a fixed number of milliseconds.                              *)
(*                                                                         *)
(* The components share nothing but the clock, so each has a specification *)
(* of its own over the same variables: SpecRecords (approve/send),         *)
(* SpecProc (pipeline), SpecPipeline (pipeline next to send), SpecToken    *)
(* (OAuth tokens), SpecCache, SpecLimit (middleware and rate limiter),     *)
(* SpecBatch (process-batch), SpecIntake (Gmail notifications and the      *)
(* processed_emails table), SpecIdentify (the limiter's identifier),       *)
(* SpecGmail and SpecInbox (the Gmail service over the shared OAuth        *)
(* client and over its cache), SpecProcess (pipeline next to batch),       *)
(* SpecLive (progress of the calls, with fairness), SpecOAuth (the Gmail   *)
(* OAuth flow of a browser session) and SpecKeys (the limiter's keys for   *)
(* inputs that contain the separator).                                     *)
(***************************************************************************)
EXTENDS Integers, Sequences, FiniteSets, TLC

VARIABLES
    now,            \* Date.now()
    llm_responses,  \* table llm_responses: email_id -> row
    sendReq,        \* POST /api/llm/send: the request in flight per email_id
    approveRes,     \* POST /api/llm/approve: the last response returned
    proc,           \* one process-email execution (any of the three routes)
    oauth_tokens,   \* table oauth_tokens: user_email -> row
    issued,         \* access tokens issued so far by the token endpoint
    loader,         \* loadTokens(): the call in flight per caller
    cache,          \* CacheService.cache: key -> {data, expires}
    lastSet,        \* history: the latest set() per key not yet deleted
    lastGet,        \* the last get() call per key and what it returned
    store,          \* rateLimiters[name].store: key -> {count, resetTime}
    lastCheck,      \* the last check() call per key and what it returned
    window,         \* history: the reference window of each key
    uncleaned,      \* history: the stores as they are if cleanup never runs
    mwResponse,     \* middleware: its answer to the last request
    batch,          \* one process-batch execution (either route)
    processed_emails, \* table processed_emails, in insertion order
    notif,          \* gmail-notification: the handler of each delivery
    historyId,      \* oauth_tokens.gmail_profile.historyId of the user
    idResult,       \* getIdentifier: its last call and what it returned
    client,         \* googleAuth.oAuth2Client.credentials (one shared client)
    gmail,          \* GmailService: the operation in flight per caller
    mailbox,        \* Gmail: the UNREAD label of message m1 per mailbox
    session         \* Gmail OAuth flow of the browser session

vars == <<now, llm_responses, sendReq, approveRes, proc, oauth_tokens, issued,
          loader, cache, lastSet, lastGet, store, lastCheck, window,
          uncleaned, mwResponse, batch, processed_emails, notif, historyId,
          idResult, client, gmail, mailbox, session>>

recordVars == <<llm_responses, sendReq, approveRes>>
procVars   == <<proc>>
tokenVars  == <<oauth_tokens, issued, loader>>
cacheVars  == <<cache, lastSet, lastGet>>
limitVars  == <<store, lastCheck, window, uncleaned, mwResponse>>
batchVars  == <<batch>>
intakeVars == <<processed_emails, notif, historyId>>
\* the variables of the components modelled further down
gmailVars  == <<client, gmail, mailbox>>
oauthVars  == <<session>>
restVars   == <<idResult, gmailVars, oauthVars>>

(***************************************************************************)
(* Bounds                                                                  *)
(***************************************************************************)
\* the clock's range while only the approve/send handlers run
MaxRecordTime == 2

\* email_id values a request body can carry; "" is the missing email_id
EmailIds == {"e1", "e2"}
EmailIdInputs == EmailIds \cup {""}

\* the optional `body` of an approve request: absent, empty, or an edit
NoBody == "<undefined>"
BodyInputs == {NoBody, "", "edited"}

(***************************************************************************)
(* The clock                                                               *)
(***************************************************************************)
Tick(max) ==
    /\ now < max
    /\ now' = now + 1
    /\ UNCHANGED <<recordVars, procVars, tokenVars, cacheVars, limitVars, batchVars, intakeVars, restVars>>

(***************************************************************************)
(* llm_responses: approve and send                                         *)
(***************************************************************************)
\* A row as the AI backend stores it when a draft response is generated.
DraftRow(e) ==
    [email_id |-> e, suggested_body |-> "draft", approved |-> FALSE,
     sent |-> FALSE, sent_at |-> 0, updated_at |-> now]

\* The AI backend persists the generated draft of an email.  A sent email
\* is not reprocessed; reprocessing an unsent one overwrites its row.
PersistDraft(e) ==
    /\ e \in DOMAIN llm_responses => ~llm_responses[e].sent
    /\ llm_responses' = [x \in DOMAIN llm_responses \cup {e} |->
                            IF x = e THEN DraftRow(e) ELSE llm_responses[x]]
    /\ UNCHANGED <<now, sendReq, approveRes, procVars, tokenVars, cacheVars,
                   limitVars, batchVars, intakeVars, restVars>>

\* JavaScript truthiness of the optional body string
Truthy(b) == b # NoBody /\ b # ""

\* approve/route.ts: updateData applied to a row
ApproveToggles(row, updatedBody, t) ==
    [row EXCEPT !.approved = ~@,
                !.updated_at = t,
                !.suggested_body = IF Truthy(updatedBody) THEN updatedBody
                                   ELSE @]

ApproveUpdateData(row, updatedBody, t) ==
    [row EXCEPT !.approved = TRUE,
                !.updated_at = t,
                !.suggested_body = IF Truthy(updatedBody) THEN updatedBody
                                   ELSE @]

\* supabase .update(data).eq('email_id', id): rewrites the matching rows;
\* updated[x] is row x with the update data applied
UpdateWhere(table, id, updated) ==
    [x \in DOMAIN table |-> IF x = id THEN updated[x] ELSE table[x]]

\* approve/route.ts lines 30-33: the table after the update statement of
\* an Approve(e, updatedBody) at time t
ApprovedTable(table, e, updatedBody, t) ==
    UpdateWhere(table, e,
        [x \in DOMAIN table |-> ApproveUpdateData(table[x], updatedBody, t)])

\* POST /api/llm/approve.  dbOk = FALSE is supabase answering with an error.
Approve(e, updatedBody, dbOk) ==
    /\ IF e = ""
       THEN /\ approveRes' = [status |-> 400, success |-> FALSE]
            /\ UNCHANGED llm_responses
       ELSE IF ~dbOk
       THEN /\ approveRes' = [status |-> 500, success |-> FALSE]
            /\ UNCHANGED llm_responses
       ELSE /\ llm_responses' = ApprovedTable(llm_responses, e, updatedBody, now)
            /\ approveRes' = [status |-> 200, success |-> TRUE]
    /\ UNCHANGED <<now, sendReq, procVars, tokenVars, cacheVars, limitVars, batchVars, intakeVars, restVars>>

IdleSend == [pc |-> "idle", status |-> 0, response |-> {},
             transport |-> "not_invoked"]

\* send/route.ts lines 43-51: the update that marks the response as sent
SendUpdateNoSent(row, t) ==
    [row EXCEPT !.sent_at = t, !.approved = TRUE]

SendUpdateNoApprove(row, t) ==
    [row EXCEPT !.sent = TRUE, !.sent_at = t]

SendUpdateData(row, t) ==
    [row EXCEPT !.sent = TRUE, !.sent_at = t, !.approved = TRUE]

\* What the handler keeps of the fetched row: the flags it found.
Fetched(row) == [approved |-> row.approved, sent |-> row.sent]

\* POST /api/llm/send, up to the first await on the table: validation and
\* the .select('*').eq('email_id', id).single() fetch.
SendFetch(e) ==
    /\ sendReq[e].pc # "fetched"
    /\ sendReq' = [sendReq EXCEPT ![e] =
          IF e = ""
          THEN [IdleSend EXCEPT !.pc = "done", !.status = 400]
          ELSE IF e \notin DOMAIN llm_responses
          THEN [IdleSend EXCEPT !.pc = "done", !.status = 404]
          ELSE [IdleSend EXCEPT !.pc = "fetched",
                                !.response = {Fetched(llm_responses[e])}]]
    /\ UNCHANGED <<now, llm_responses, approveRes, procVars, tokenVars,
                   cacheVars, limitVars, batchVars, intakeVars, restVars>>

\* POST /api/llm/send, the rest: the mock "sending" (a log line; the Gmail
\* transport is not invoked) and the update.  dbOk = FALSE is updateError.
SendUpdate(e, dbOk) ==
    /\ sendReq[e].pc = "fetched"
    /\ IF dbOk
       THEN /\ llm_responses' = UpdateWhere(llm_responses, e,
                    [x \in DOMAIN llm_responses |->
                        SendUpdateData(llm_responses[x], now)])
            /\ sendReq' = [sendReq EXCEPT ![e].pc = "done", ![e].status = 200]
       ELSE /\ UNCHANGED llm_responses
            /\ sendReq' = [sendReq EXCEPT ![e].pc = "done", ![e].status = 500]
    /\ UNCHANGED <<now, approveRes, procVars, tokenVars, cacheVars, limitVars, batchVars, intakeVars, restVars>>

NextRecords ==
    \/ Tick(MaxRecordTime)
    \/ \E e \in EmailIds : PersistDraft(e)
    \/ \E e \in EmailIdInputs, b \in BodyInputs, ok \in BOOLEAN : Approve(e, b, ok)
    \/ \E e \in EmailIdInputs : SendFetch(e)
    \/ \E e \in EmailIds, ok \in BOOLEAN : SendUpdate(e, ok)

(***************************************************************************)
(* The process-email pipeline, as implemented by three routes:             *)
(*   "webhook"  frontend/app/api/webhook/process-email/route.ts            *)
(*   "express"  the Express router's POST /process-email                   *)
(*   "llm"      frontend/app/api/llm/process/route.ts                      *)
(* proc.calls is the sequence of upstream calls the execution has issued.  *)
(***************************************************************************)
ProcRoutes == {"webhook", "express", "llm"}

\* what the classifier answers; product_name is whether a product was
\* named, extracted_order_id whether an order id was found in the email
Classifications ==
    [is_support : BOOLEAN, is_tracking : BOOLEAN, product_name : BOOLEAN,
     extracted_order_id : BOOLEAN]

\* HTTP statuses of a failing upstream answer that the llm route passes on
UpstreamErrorStatus == {429, 500}

NoResult == [status |-> 0, success |-> "none", classification |-> {},
             tracking |-> "null", generated_response |-> "null",
             error |-> FALSE, message |-> "none"]

IdleProc == [route |-> "none", email_id |-> "", request |-> "none",
             pc |-> "idle", calls |-> <<>>,
             classification |-> {}, clsOutcome |-> "none",
             trackOutcome |-> "none", genOutcome |-> "none",
             trackingKey |-> "none",
             trackingData |-> "null", result |-> NoResult]

Range(seq) == {seq[i] : i \in DOMAIN seq}

\* the catch block of the webhook and Express routes, and of the llm route
Caught(p) ==
    [p EXCEPT !.pc = "done",
              !.result = [NoResult EXCEPT !.status = 500,
                             !.success = IF p.route = "llm" THEN "none"
                                         ELSE "false",
                             !.error = TRUE]]

\* the 4xx answers given before the pipeline starts
RejectedGoesOn(p, st) == [p EXCEPT !.pc = "classify"]

Rejected(p, st) ==
    [p EXCEPT !.pc = "done",
              !.result = [NoResult EXCEPT !.status = st,
                             !.success = IF p.route = "llm" THEN "none"
                                         ELSE "false",
                             !.error = TRUE]]

\* The handler up to its first upstream call, for the email with id e
\* ("": the request has no email_id).  `request` is "ok", or "invalid" (a
\* required field is missing), or for the llm route "unauthenticated" (no
\* Supabase user).  The llm route requires email_id only.  No route reads
\* llm_responses.
Start(route, request, e) ==
    /\ proc.pc \in {"idle", "done"}
    /\ request = "unauthenticated" => route = "llm"
    /\ e = "" => request = "invalid"
    /\ (route = "llm" /\ request = "invalid") => e = ""
    /\ LET p == [IdleProc EXCEPT !.route = route, !.email_id = e,
                                 !.request = request]
       IN proc' = CASE request = "invalid"         -> Rejected(p, 400)
                    [] request = "unauthenticated" -> Rejected(p, 401)
                    [] OTHER                       -> [p EXCEPT !.pc = "classify"]
    /\ UNCHANGED <<now, recordVars, tokenVars, cacheVars, limitVars, batchVars, intakeVars, restVars>>

\* the generation gate of the llm route (process/route.ts line 149)
Gate(cls) ==
    \E c \in cls : c.product_name /\ (c.is_support \/ c.is_tracking)

\* the llm route's answer when no generation call was made (lines 197-215)
LlmNoGeneration(p) ==
    [p EXCEPT !.pc = "done",
              !.result = [NoResult EXCEPT
                  !.status = 200, !.success = "true",
                  !.classification = p.classification,
                  !.tracking = p.trackingData,
                  !.message = IF \E c \in p.classification : ~c.product_name
                              THEN "no_product"
                              ELSE "not_support_or_tracking"]]

\* Step 1 failed: `outcome` is "not_ok" (a non-2xx answer) or "throw" (the
\* call rejected: network error or timeout).  The webhook route throws on
\* a non-2xx answer, axios rejects on it, the llm route answers with the
\* upstream status.
ClassifyFailedContinues(p, outcome, st) ==
    [p EXCEPT !.pc = "generate", !.clsOutcome = outcome]

ClassifyFailed(p, outcome, st) ==
    IF p.route = "llm" /\ outcome = "not_ok"
    THEN [p EXCEPT !.pc = "done", !.clsOutcome = outcome,
                   !.result = [NoResult EXCEPT !.status = st, !.error = TRUE]]
    ELSE [Caught(p) EXCEPT !.clsOutcome = outcome]

\* the lookup key of the tracking request: its body carries email_id and
\* sender_email: classification.sender_email || from
TrackingKey(cls) == "sender_email"

\* Step 1 succeeded with classification cls (absent: {}, llm route only);
\* td is the tracking_data the llm route's processing answer carries.
Classified(p, cls, td) ==
    LET q == [p EXCEPT !.clsOutcome = "ok", !.classification = cls,
                       !.trackingData = IF p.route = "llm" THEN td ELSE "null"]
    IN  IF p.route = "llm"
        THEN IF Gate(cls) THEN [q EXCEPT !.pc = "generate"]
                          ELSE LlmNoGeneration(q)
        ELSE IF \E c \in cls : c.is_tracking
             THEN [q EXCEPT !.pc = "tracking",
                            !.trackingKey = TrackingKey(cls)]
             ELSE [q EXCEPT !.pc = "generate"]

\* STEP 1: the classification call (llm route: the /emails/process call)
\* and what the handler does up to its next upstream call.
Classify(outcome, cls, td, st) ==
    /\ proc.pc = "classify"
    /\ proc.route # "llm" => cls # {} /\ td = "null"
    /\ outcome # "ok" => cls = {} \/ proc.route # "llm"
    /\ LET p == [proc EXCEPT !.calls =
                    Append(@, IF proc.route = "llm" THEN "process"
                              ELSE "classify")]
       IN proc' = IF outcome = "ok" THEN Classified(p, cls, td)
                  ELSE ClassifyFailed(p, outcome, st)
    /\ UNCHANGED <<now, recordVars, tokenVars, cacheVars, limitVars, batchVars, intakeVars, restVars>>

\* STEP 2 finished with `outcome`: "found", "not_found", "not_ok" (skipped
\* by the webhook route, rejected by axios and caught in the Express
\* route) or "throw" (caught); the pipeline goes on to step 3.
TrackedFailureAborts(p, outcome) ==
    IF outcome \in {"not_ok", "throw"}
    THEN [Caught(p) EXCEPT !.trackOutcome = outcome]
    ELSE [p EXCEPT !.pc = "generate", !.trackOutcome = outcome,
                   !.trackingData = IF outcome = "found" THEN "data"
                                    ELSE "null"]

TrackedRetries(p, outcome) ==
    IF outcome \in {"not_ok", "throw"}
    THEN [p EXCEPT !.pc = "tracking", !.trackOutcome = outcome]
    ELSE [p EXCEPT !.pc = "generate", !.trackOutcome = outcome,
                   !.trackingData = IF outcome = "found" THEN "data"
                                    ELSE "null"]

Tracked(p, outcome) ==
    [p EXCEPT !.pc = "generate", !.trackOutcome = outcome,
              !.trackingData = IF outcome = "found" THEN "data" ELSE "null"]

\* STEP 2: the tracking call of the webhook and Express routes
Tracking(outcome) ==
    /\ proc.pc = "tracking"
    /\ proc' = Tracked([proc EXCEPT !.calls = Append(@, "tracking")], outcome)
    /\ UNCHANGED <<now, recordVars, tokenVars, cacheVars, limitVars, batchVars, intakeVars, restVars>>

\* the answer of the webhook and Express routes after a generated response
Completed(p) ==
    [p EXCEPT !.pc = "done",
              !.result = [NoResult EXCEPT
                  !.status = 200, !.success = "true",
                  !.classification = p.classification,
                  !.tracking = p.trackingData,
                  !.generated_response = "response"]]

\* the llm route's answer after its generation call (lines 164-215):
\* "ok_error" is a 2xx answer whose body reports an error
LlmGenerated(p, outcome) ==
    [p EXCEPT !.pc = "done",
              !.result = [NoResult EXCEPT
                  !.status = 200,
                  !.success = IF outcome = "ok" THEN "true" ELSE "false",
                  !.classification = p.classification,
                  !.tracking = p.trackingData,
                  !.generated_response =
                       CASE outcome = "ok"       -> "response"
                         [] outcome = "ok_error" -> "error_response"
                         [] OTHER                -> "null",
                  !.error = (outcome # "ok")]]

\* STEP 3: the generation call and the rest of the handler.  The webhook
\* and Express routes issue it unconditionally; the llm route reaches it
\* only through Gate.
Generate(outcome) ==
    /\ proc.pc = "generate"
    /\ outcome = "ok_error" => proc.route = "llm"
    /\ LET p == [proc EXCEPT !.calls = Append(@, "generate"),
                             !.genOutcome = outcome]
       IN proc' = IF proc.route = "llm"
                  THEN IF outcome = "throw" THEN Caught(p)
                       ELSE LlmGenerated(p, outcome)
                  ELSE IF outcome = "ok" THEN Completed(p)
                       ELSE Caught(p)
    /\ UNCHANGED <<now, recordVars, tokenVars, cacheVars, limitVars, batchVars, intakeVars, restVars>>

NextProc ==
    \/ \E r \in ProcRoutes, q \in {"ok", "invalid", "unauthenticated"},
          e \in EmailIdInputs :
          Start(r, q, e)
    \/ \E o \in {"ok", "not_ok", "throw"}, c \in Classifications,
          none \in BOOLEAN, td \in {"null", "data"}, st \in UpstreamErrorStatus :
          Classify(o, IF none THEN {} ELSE {c}, td, st)
    \/ \E o \in {"found", "not_found", "not_ok", "throw"} : Tracking(o)
    \/ \E o \in {"ok", "ok_error", "not_ok", "throw"} : Generate(o)

\* the pipeline next to the handlers that make a response sent
NextPipeline ==
    \/ NextProc
    \/ \E e \in EmailIds : PersistDraft(e)
    \/ \E e \in EmailIds : SendFetch(e)
    \/ \E e \in EmailIds : SendUpdate(e, TRUE)

(***************************************************************************)
(* GoogleAuthService: the oauth_tokens table and loadTokens                *)
(***************************************************************************)
Principals == {"a@x", "b@x"}
Callers == {1, 2}
\* access tokens the token endpoint issues in a run
MaxIssued == 3
\* the clock's range while only the token store runs
MaxTokenTime == 4
\* lifetime of an access token, in ticks
TokenLife == 1

IdleLoader == [pc |-> "idle", userEmail |-> "", data |-> {}, refreshed |-> {},
               result |-> {}, logged |-> {}]

\* the credential the token endpoint issues at time t
NewToken(n, t, hasRefresh) ==
    [access_token |-> n, refresh_token |-> hasRefresh,
     expiry_date |-> t + TokenLife]

\* loadTokens line 129: the stored token is expired
Expired(row, t) == row.expiry_date # 0 /\ row.expiry_date < t

\* saveTokens: upsert on user_email
Upsert(table, u, row) ==
    [x \in DOMAIN table \cup {u} |-> IF x = u THEN row ELSE table[x]]

\* The OAuth callback of a user: the code is exchanged for tokens
\* (handleCallback) and they are saved (saveTokens).
AuthCallback(u, hasRefresh) ==
    /\ issued < MaxIssued
    /\ issued' = issued + 1
    /\ oauth_tokens' = Upsert(oauth_tokens, u, NewToken(issued + 1, now, hasRefresh))
    /\ UNCHANGED <<now, loader, recordVars, procVars, cacheVars,
                   limitVars, batchVars, intakeVars, restVars>>

\* removeTokens: delete the user's row
RemoveTokens(u) ==
    /\ u \in DOMAIN oauth_tokens
    /\ oauth_tokens' = [x \in DOMAIN oauth_tokens \ {u} |-> oauth_tokens[x]]
    /\ UNCHANGED <<now, issued, loader, recordVars, procVars,
                   cacheVars, limitVars, batchVars, intakeVars, restVars>>

\* what loadTokens does with the row it selected (lines 124-148): no row:
\* null; expired with a refresh token: the refresh call is issued;
\* otherwise the stored token is returned
AfterSelect(c, u, rows) ==
    IF rows = {} THEN [IdleLoader EXCEPT !.pc = "done", !.userEmail = u]
    ELSE IF \E r \in rows : Expired(r, now) /\ r.refresh_token
    THEN [IdleLoader EXCEPT !.pc = "refreshing", !.userEmail = u, !.data = rows]
    ELSE [IdleLoader EXCEPT !.pc = "done", !.userEmail = u, !.result = rows]

\* loadTokens(u), up to its first network call: the select (dbOk = FALSE is
\* a supabase error) and, for an expired token, the start of
\* refreshAccessToken.
LoadSelect(c, u, dbOk) ==
    /\ loader[c].pc \in {"idle", "done"}
    /\ LET rows == IF dbOk /\ u \in DOMAIN oauth_tokens THEN {oauth_tokens[u]}
                   ELSE {}
           next == AfterSelect(c, u, rows)
       IN loader' = [loader EXCEPT ![c] = next]
    /\ UNCHANGED <<now, oauth_tokens, issued, recordVars, procVars, cacheVars,
                   limitVars, batchVars, intakeVars, restVars>>

\* The token endpoint answers the refresh call.  On success loadTokens goes
\* on to saveTokens; on failure refreshAccessToken logs and throws (lines
\* 160-162) and loadTokens logs and returns null (lines 135-138).
LoadRefreshed(c, ok) ==
    /\ loader[c].pc = "refreshing"
    /\ IF ok /\ issued < MaxIssued
       THEN /\ issued' = issued + 1
            /\ loader' = [loader EXCEPT ![c].pc = "saving", ![c].data = {},
                            ![c].refreshed = {NewToken(issued + 1, now, TRUE)}]
       ELSE /\ UNCHANGED issued
            /\ loader' = [loader EXCEPT ![c].pc = "done", ![c].data = {},
                            ![c].result = {},
                            ![c].logged = {"Error refreshing access token",
                                           "Failed to refresh token"}]
    /\ UNCHANGED <<now, oauth_tokens, recordVars, procVars,
                   cacheVars, limitVars, batchVars, intakeVars, restVars>>

\* saveTokens(u, refreshedTokens) and the return of loadTokens: the upsert
\* replaces the row; a supabase error makes saveTokens throw and loadTokens
\* log and return null.  A finished call keeps in `refreshed` the token it stored.
LoadSaved(c, dbOk) ==
    /\ loader[c].pc = "saving"
    /\ IF dbOk
       THEN /\ \E t \in loader[c].refreshed :
                  oauth_tokens' = Upsert(oauth_tokens, loader[c].userEmail, t)
            /\ loader' = [loader EXCEPT ![c].pc = "done",
                                        ![c].result = loader[c].refreshed]
       ELSE /\ UNCHANGED oauth_tokens
            /\ loader' = [loader EXCEPT ![c].pc = "done", ![c].refreshed = {},
                            ![c].result = {},
                            ![c].logged = {"Failed to refresh token"}]
    /\ UNCHANGED <<now, issued, recordVars, procVars, cacheVars,
                   limitVars, batchVars, intakeVars, restVars>>

NextToken ==
    \/ Tick(MaxTokenTime)
    \/ \E u \in Principals, r \in BOOLEAN : AuthCallback(u, r)
    \/ \E u \in Principals : RemoveTokens(u)
    \/ \E c \in Callers, u \in Principals, ok \in BOOLEAN : LoadSelect(c, u, ok)
    \/ \E c \in Callers, ok \in BOOLEAN : LoadRefreshed(c, ok)
    \/ \E c \in Callers, ok \in BOOLEAN : LoadSaved(c, ok)

(***************************************************************************)
(* CacheService: the in-memory TTL cache of the Gmail service              *)
(***************************************************************************)
CacheKeys == {"message_a@x_m1", "messages_a@x_in:inbox_20"}
CacheData == {"v1", "v2"}
\* this.ttl in ticks (the service is built with 300 seconds)
ttl == 2
\* the clock's range while only the cache runs
MaxCacheTime == 5

\* get line 38: the item has expired
StaleNever(item, t) == FALSE

Stale(item, t) == t > item.expires

\* what get(key) returns at time t
CacheLookup(c, key, t) ==
    IF key \notin DOMAIN c THEN [hit |-> FALSE, data |-> "null"]
    ELSE IF Stale(c[key], t) THEN [hit |-> FALSE, data |-> "null"]
    ELSE [hit |-> TRUE, data |-> c[key].data]

\* Map.delete(key)
MapDelete(c, key) == [x \in DOMAIN c \ {key} |-> c[x]]

\* get(key): an expired item is deleted on the way
CacheGet(key) ==
    /\ lastGet' = [lastGet EXCEPT ![key] =
                      {[at |-> now] @@ CacheLookup(cache, key, now)}]
    /\ cache' = IF key \in DOMAIN cache /\ Stale(cache[key], now)
                THEN MapDelete(cache, key) ELSE cache
    /\ UNCHANGED <<now, lastSet, recordVars, procVars, tokenVars, limitVars, batchVars, intakeVars, restVars>>

\* set(key, data)
CacheSet(key, data) ==
    /\ cache' = [x \in DOMAIN cache \cup {key} |->
                    IF x = key THEN [data |-> data, expires |-> now + ttl]
                    ELSE cache[x]]
    /\ lastSet' = [lastSet EXCEPT ![key] = {[data |-> data, at |-> now]}]
    /\ UNCHANGED <<now, lastGet, recordVars, procVars, tokenVars, limitVars, batchVars, intakeVars, restVars>>

\* delete(key)
CacheDelete(key) ==
    /\ cache' = MapDelete(cache, key)
    /\ lastSet' = [lastSet EXCEPT ![key] = {}]
    /\ UNCHANGED <<now, lastGet, recordVars, procVars, tokenVars, limitVars, batchVars, intakeVars, restVars>>

\* clear()
CacheClear ==
    /\ cache' = <<>>
    /\ lastSet' = [k \in CacheKeys |-> {}]
    /\ UNCHANGED <<now, lastGet, recordVars, procVars, tokenVars, limitVars, batchVars, intakeVars, restVars>>

NextCache ==
    \/ Tick(MaxCacheTime)
    \/ \E k \in CacheKeys : CacheGet(k)
    \/ \E k \in CacheKeys, d \in CacheData : CacheSet(k, d)
    \/ \E k \in CacheKeys : CacheDelete(k)
    \/ CacheClear

(***************************************************************************)
(* RateLimiter and the four limiters of rate-limit.ts.  Strings are        *)
(* sequences of tokens, so that a key is the concatenation the code builds *)
(* and includes() is a search for a contiguous part.                       *)
(***************************************************************************)
Identifiers == {<<"u1">>}
Routes == {<<"/api", "/auth", "/login">>, <<"/api", "/gmail", "/inbox">>}
\* this.interval in ticks (every limiter is built with 60 * 1000 ms)
interval == 2
\* the clock's range while only the rate limiter runs
MaxLimitTime == 5

LimiterNames == {"gmail", "auth", "webhook", "default"}

\* uniqueTokenPerInterval of each limiter
uniqueTokenPerInterval(name) ==
    CASE name = "gmail"   -> 10
      [] name = "auth"    -> 5
      [] name = "webhook" -> 100
      [] OTHER            -> 30

\* String.prototype.includes
Includes(str, part) ==
    \E i \in 0..(Len(str) - Len(part)) :
        \A j \in 1..Len(part) : str[i + j] = part[j]

getRateLimiter(route) ==
    IF Includes(route, <<"/api", "/gmail">>) THEN "gmail"
    ELSE IF Includes(route, <<"/api", "/auth">>) THEN "auth"
    ELSE IF Includes(route, <<"/api", "/webhook">>) THEN "webhook"
    ELSE "default"

getKey(identifier, route) == identifier \o <<":">> \o route

\* check line 61: the limit is exceeded
ExceededOffByOne(entry, capacity) == entry.count > capacity

Exceeded(entry, capacity) == entry.count >= capacity

\* check line 45: no entry, or the entry's window is over
WindowOver(st, key, t) == key \notin DOMAIN st \/ st[key].resetTime < t

\* the store of a limiter after check(identifier, route) at time t
StoreAfterCheckFromLastReset(st, key, capacity, t) ==
    IF WindowOver(st, key, t)
    THEN [x \in DOMAIN st \cup {key} |->
             IF x = key
             THEN [count |-> 1,
                   resetTime |-> IF key \in DOMAIN st
                                 THEN st[key].resetTime + interval
                                 ELSE t + interval]
             ELSE st[x]]
    ELSE IF Exceeded(st[key], capacity) THEN st
    ELSE [st EXCEPT ![key].count = @ + 1]

StoreAfterCheckCountsDenials(st, key, capacity, t) ==
    IF WindowOver(st, key, t)
    THEN [x \in DOMAIN st \cup {key} |->
             IF x = key THEN [count |-> 1, resetTime |-> t + interval]
             ELSE st[x]]
    ELSE [st EXCEPT ![key].count = @ + 1]

StoreAfterCheck(st, key, capacity, t) ==
    IF WindowOver(st, key, t)
    THEN [x \in DOMAIN st \cup {key} |->
             IF x = key THEN [count |-> 1, resetTime |-> t + interval]
             ELSE st[x]]
    ELSE IF Exceeded(st[key], capacity) THEN st
    ELSE [st EXCEPT ![key].count = @ + 1]

\* what check(identifier, route) returns at time t
CheckResult(st, key, capacity, t) ==
    IF WindowOver(st, key, t)
    THEN [success |-> TRUE, limit |-> capacity, remaining |-> capacity - 1,
          reset |-> t + interval]
    ELSE IF Exceeded(st[key], capacity)
    THEN [success |-> FALSE, limit |-> capacity, remaining |-> 0,
          reset |-> st[key].resetTime]
    ELSE [success |-> TRUE, limit |-> capacity,
          remaining |-> capacity - (st[key].count + 1),
          reset |-> st[key].resetTime]

\* the reference window of a key: a call later than the window's end opens
\* a new one (reopened: it follows an earlier window of the key); calls
\* counts the calls in the window up to capacity + 1
WindowAfterCall(w, key, capacity, t) ==
    IF key \notin DOMAIN w \/ t > w[key].end
    THEN [x \in DOMAIN w \cup {key} |->
             IF x = key
             THEN [end |-> t + interval, calls |-> 1,
                   reopened |-> key \in DOMAIN w]
             ELSE w[x]]
    ELSE [w EXCEPT ![key].calls = IF @ > capacity THEN @ ELSE @ + 1]

\* String.prototype.startsWith
StartsWith(str, prefix) ==
    /\ Len(prefix) <= Len(str)
    /\ \A j \in 1..Len(prefix) : str[j] = prefix[j]

\* middleware lines 7-10: the paths the rate limit applies to
RateLimitedPath(route) ==
    /\ StartsWith(route, <<"/api">>)
    /\ route # <<"/api", "/health">>
    /\ route # <<"/api", "/webhook", "/test">>

\* paths the middleware lets through with a session update only
OpenRoutes == {<<"/login">>, <<"/api", "/health">>,
               <<"/api", "/webhook", "/test">>}

NoResponse == [status |-> 0, forwarded |-> FALSE, headers |-> {},
               retryAfter |-> {}]

\* the X-RateLimit-* headers (lines 32-34 and 42-44)
RateLimitHeaders(result) ==
    {[limit |-> result.limit, remaining |-> result.remaining,
      reset |-> result.reset]}

\* The middleware's answer given the result of check (lines 21-46) at time
\* t.  forwarded: updateSession ran and the request went on to its route
\* handler, whose answer (here 200) is returned with the headers added.
MiddlewareAlwaysForwards(result, t) ==
    [status |-> 200, forwarded |-> TRUE, headers |-> RateLimitHeaders(result),
     retryAfter |-> {}]

MiddlewareResponse(result, t) ==
    IF ~result.success
    THEN [status |-> 429, forwarded |-> FALSE,
          headers |-> RateLimitHeaders(result),
          retryAfter |-> {result.reset - t}]
    ELSE [status |-> 200, forwarded |-> TRUE,
          headers |-> RateLimitHeaders(result), retryAfter |-> {}]

\* The middleware on a request to a rate-limited path: check(identifier,
\* pathname) and the answer built from its result.
RateCheck(identifier, route) ==
    LET name == getRateLimiter(route)
        key == getKey(identifier, route)
        capacity == uniqueTokenPerInterval(name)
    IN /\ RateLimitedPath(route)
       /\ mwResponse' = MiddlewareResponse(
                            CheckResult(store[name], key, capacity, now), now)
       /\ store' = [store EXCEPT ![name] =
                       StoreAfterCheck(store[name], key, capacity, now)]
       /\ lastCheck' = [x \in DOMAIN lastCheck \cup {key} |->
             IF x = key
             THEN [at |-> now] @@ CheckResult(store[name], key, capacity, now)
             ELSE lastCheck[x]]
       /\ window' = WindowAfterCall(window, key, capacity, now)
       /\ uncleaned' = [uncleaned EXCEPT ![name] =
                           StoreAfterCheck(uncleaned[name], key, capacity, now)]
       /\ UNCHANGED <<now, recordVars, procVars, tokenVars, cacheVars, batchVars, intakeVars, restVars>>

\* The middleware on any other path (lines 50-51): updateSession only.
SessionOnly(route) ==
    /\ ~RateLimitedPath(route)
    /\ mwResponse' = [NoResponse EXCEPT !.status = 200, !.forwarded = TRUE]
    /\ UNCHANGED <<now, store, lastCheck, window, uncleaned, recordVars,
                   procVars, tokenVars, cacheVars, batchVars, intakeVars, restVars>>

\* cleanup() lines 29-34: a store after the loop that deletes the entries
\* whose resetTime is before t
AfterCleanupAtReset(st, t) ==
    [k \in {x \in DOMAIN st : ~(st[x].resetTime <= t)} |-> st[k]]

AfterCleanup(st, t) ==
    [k \in {x \in DOMAIN st : ~(st[x].resetTime < t)} |-> st[k]]

\* cleanup(), run by the limiter's timer
Cleanup(name) ==
    /\ store' = [store EXCEPT ![name] = AfterCleanup(store[name], now)]
    /\ UNCHANGED <<now, lastCheck, window, uncleaned, mwResponse, recordVars, procVars, tokenVars,
                   cacheVars, batchVars, intakeVars, restVars>>

NextLimit ==
    \/ Tick(MaxLimitTime)
    \/ \E i \in Identifiers, r \in Routes : RateCheck(i, r)
    \/ \E r \in OpenRoutes : SessionOnly(r)
    \/ \E n \in LimiterNames : Cleanup(n)

\* identifiers (a cookie value or a forwarded address) and paths that
\* contain the separator of getKey
SeparatorIdentifiers == {<<"u1">>, <<"u1", ":", "/api", "/gmail">>}
SeparatorRoutes == {<<"/api", "/gmail">>,
                    <<"/api", "/gmail", ":", "/api", "/gmail">>}

\* the entry check(identifier, route) works on
Entry(st, identifier, route) ==
    LET table == st[getRateLimiter(route)]
        key == getKey(identifier, route)
    IN IF key \in DOMAIN table THEN {table[key]} ELSE {}

\* requests whose identifier or path contains ':'
NextKeys ==
    \E i \in SeparatorIdentifiers, r \in SeparatorRoutes : RateCheck(i, r)

(***************************************************************************)
(* process-batch, as implemented by two routes:                            *)
(*   "next"     the Next route POST /api/webhook/process-batch             *)
(*   "express"  the Express router's POST /process-batch                   *)
(* Each item is posted to process-email; `outcome` is what that call does: *)
(* "ok" (a 2xx answer), "not_ok" (a non-2xx answer) or "throw" (the call   *)
(* rejected).  batch.attempts is the history of the calls made.            *)
(***************************************************************************)
BatchRoutes == {"next", "express"}
\* the longest emails array of a request
MaxBatch == 3

BatchInputs ==
    UNION {[1..n -> EmailIds] : n \in 0..MaxBatch}

NoBatchResponse == [status |-> 0, success |-> FALSE, total |-> 0,
                    processed |-> 0, failed |-> 0]

IdleBatch == [route |-> "none", pc |-> "idle", emails |-> <<>>, idx |-> 1,
              attempts |-> <<>>, results |-> <<>>, errors |-> <<>>,
              response |-> NoBatchResponse]

\* the answer after the loop
BatchResponse(b) ==
    [status |-> 200, success |-> TRUE, total |-> Len(b.emails),
     processed |-> Len(b.results), failed |-> Len(b.errors)]

\* the error an item's failure is listed with: the Next route reads it
\* from the answer's body, axios and a rejected fetch give error.message
ItemError(route, outcome) ==
    IF route = "next" /\ outcome = "not_ok" THEN "body_error"
    ELSE "error_message"

\* The handler up to its first process-email call.  bodyOk = FALSE is a
\* request whose body the Next route cannot parse (outer catch).
BatchStart(route, emails, bodyOk) ==
    /\ batch.pc \in {"idle", "done"}
    /\ ~bodyOk => route = "next" /\ emails = <<>>
    /\ LET b == [IdleBatch EXCEPT !.route = route, !.emails = emails]
       IN batch' =
             IF ~bodyOk
             THEN [b EXCEPT !.pc = "done",
                            !.response = [NoBatchResponse EXCEPT !.status = 500]]
             ELSE IF emails = <<>>
             THEN [b EXCEPT !.pc = "done",
                            !.response = [NoBatchResponse EXCEPT !.status = 400]]
             ELSE [b EXCEPT !.pc = "loop"]
    /\ UNCHANGED <<now, recordVars, procVars, tokenVars, cacheVars, limitVars,
                   intakeVars, restVars>>

\* one turn of the loop: the item's call has finished with `outcome`
AfterItemAbortsOnThrow(b, outcome) ==
    LET e == b.emails[b.idx]
        a == [b EXCEPT !.attempts = Append(@, [index |-> b.idx,
                                               outcome |-> outcome])]
    IN  CASE outcome = "ok" ->
                [a EXCEPT !.results = Append(@, [email_id |-> e]),
                          !.idx = @ + 1]
          [] outcome = "not_ok" ->
                [a EXCEPT !.errors = Append(@, [email_id |-> e,
                              error |-> ItemError(b.route, outcome)]),
                          !.idx = @ + 1]
          [] OTHER ->
                [a EXCEPT !.idx = Len(b.emails) + 1]

AfterItem(b, outcome) ==
    LET e == b.emails[b.idx]
        a == [b EXCEPT !.attempts = Append(@, [index |-> b.idx,
                                               outcome |-> outcome]),
                       !.idx = @ + 1]
    IN  IF outcome = "ok"
        THEN [a EXCEPT !.results = Append(@, [email_id |-> e])]
        ELSE [a EXCEPT !.errors = Append(@, [email_id |-> e,
                          error |-> ItemError(b.route, outcome)])]

\* The process-email call of the current item and the handler up to its
\* next call, or to its answer after the last item.
BatchItem(outcome) ==
    /\ batch.pc = "loop"
    /\ LET b == AfterItem(batch, outcome)
       IN batch' = IF b.idx > Len(b.emails)
                   THEN [b EXCEPT !.pc = "done", !.response = BatchResponse(b)]
                   ELSE b
    /\ UNCHANGED <<now, recordVars, procVars, tokenVars, cacheVars, limitVars,
                   intakeVars, restVars>>

NextBatch ==
    \/ \E r \in BatchRoutes, emails \in BatchInputs, ok \in BOOLEAN :
          BatchStart(r, emails, ok)
    \/ \E o \in {"ok", "not_ok", "throw"} : BatchItem(o)

(***************************************************************************)
(* The Gmail push notification handler and the processed_emails table.     *)
(* Every delivery lists the inbox and posts each unread message to         *)
(* process-email, one after the other; deliveries are handled              *)
(* concurrently.  The AI backend behind process-email writes the           *)
(* processed_emails row of the message.                                    *)
(***************************************************************************)
\* concurrent deliveries; the historyId a delivery carries is its number
Notifications == {1, 2}
\* the unread messages of a listing, in the order Gmail lists the inbox
UnreadInputs == {<<>>, <<"e1">>, <<"e2">>, <<"e1", "e2">>}
\* what a processing of a message stores: the classifier's answer may
\* differ from one processing of the message to the next
ProcessedData == {"A", "B"}

IdleNotif == [pc |-> "idle", status |-> "none", unread |-> <<>>, idx |-> 1,
              data |-> "none"]

\* processed_emails.email_id is UNIQUE: a second row of the id is refused
UniqueViolationNever(table, e) == FALSE

UniqueViolation(table, e) == \E i \in DOMAIN table : table[i].email_id = e

\* INSERT INTO processed_emails: created_at = updated_at = NOW()
InsertRow(table, e, data) ==
    Append(table, [email_id |-> e, data |-> data, updated |-> FALSE])

\* UPDATE processed_emails ... WHERE email_id = e; the trigger moves
\* updated_at
UpdateRow(table, e, data) ==
    [i \in DOMAIN table |->
        IF table[i].email_id = e
        THEN [table[i] EXCEPT !.data = data, !.updated = TRUE]
        ELSE table[i]]

\* The backend's persistence of a processed email: reprocessing
\* overwrites the row of the email.
WriteProcessed(table, e, data) ==
    IF UniqueViolation(table, e) THEN UpdateRow(table, e, data)
    ELSE InsertRow(table, e, data)

\* The backend's persistence is a region held by one processing per
\* email_id at a time.
LockedNever(e) == FALSE

Locked(e) ==
    \E y \in Notifications :
        notif[y].pc = "persist" /\ notif[y].unread[notif[y].idx] = e

\* The handler up to its first process-email call.  `request` is "ok",
\* "malformed" (the body cannot be decoded: outer catch), "no_user" (no
\* oauth_tokens row of the address) or "inbox_error" (getInboxMessages
\* threw: inner catch).
NotifStart(x, request, unread) ==
    /\ notif[x].pc \in {"idle", "done"}
    /\ request # "ok" => unread = <<>>
    /\ notif' = [notif EXCEPT ![x] =
          CASE request = "malformed" ->
                  [IdleNotif EXCEPT !.pc = "done", !.status = "error_logged"]
            [] request = "no_user" ->
                  [IdleNotif EXCEPT !.pc = "done", !.status = "user_not_found"]
            [] request = "inbox_error" \/ unread = <<>> ->
                  [IdleNotif EXCEPT !.pc = "done", !.status = "ok"]
            [] OTHER ->
                  [IdleNotif EXCEPT !.pc = "call", !.unread = unread]]
    /\ historyId' = IF request = "ok" /\ unread = <<>> THEN x ELSE historyId
    /\ UNCHANGED <<now, processed_emails, recordVars, procVars, tokenVars,
                   cacheVars, limitVars, batchVars, restVars>>

\* the handler after the process-email call of its current message: the
\* next unread message, or the historyId update and the answer
Continue(h) ==
    IF h.idx < Len(h.unread)
    THEN [h EXCEPT !.pc = "call", !.idx = @ + 1, !.data = "none"]
    ELSE [IdleNotif EXCEPT !.pc = "done", !.status = "ok"]

\* The process-email call of the current message, up to the backend's
\* persistence.  `outcome` is "persist" (the processing reaches the
\* persistence with `data`), "answered" (process-email answered without
\* a persistence; the handler does not look at the answer) or "throw"
\* (the fetch rejected: inner catch, the historyId is not updated).
ProcessCall(x, outcome, data) ==
    LET h == notif[x]
        e == h.unread[h.idx]
    IN /\ h.pc = "call"
       /\ outcome = "persist" <=> data \in ProcessedData
       /\ outcome = "persist" => ~Locked(e)
       /\ notif' = [notif EXCEPT ![x] =
             CASE outcome = "persist"  -> [h EXCEPT !.pc = "persist",
                                                   !.data = data]
               [] outcome = "answered" -> Continue(h)
               [] OTHER -> [IdleNotif EXCEPT !.pc = "done", !.status = "ok"]]
       /\ historyId' = IF outcome = "answered" /\ Continue(h).pc = "done"
                       THEN x ELSE historyId
       /\ UNCHANGED <<now, processed_emails, recordVars, procVars, tokenVars,
                      cacheVars, limitVars, batchVars, restVars>>

\* The backend writes the row and process-email answers; the handler goes
\* on.
PersistEnd(x) ==
    LET h == notif[x]
    IN /\ h.pc = "persist"
       /\ processed_emails' =
             WriteProcessed(processed_emails, h.unread[h.idx], h.data)
       /\ notif' = [notif EXCEPT ![x] = Continue(h)]
       /\ historyId' = IF Continue(h).pc = "done" THEN x ELSE historyId
       /\ UNCHANGED <<now, recordVars, procVars, tokenVars, cacheVars,
                      limitVars, batchVars, restVars>>

NextIntake ==
    \/ \E x \in Notifications, u \in UnreadInputs,
          q \in {"ok", "malformed", "no_user", "inbox_error"} :
          NotifStart(x, q, u)
    \/ \E x \in Notifications, o \in {"persist", "answered", "throw"},
          d \in ProcessedData \cup {"none"} : ProcessCall(x, o, d)
    \/ \E x \in Notifications : PersistEnd(x)
    \/ \E e \in EmailIds : Approve(e, NoBody, TRUE)
    \/ \E e \in EmailIds : SendFetch(e)

(***************************************************************************)
(* getIdentifier of rate-limit.ts, which the middleware calls on every     *)
(* rate-limited request.  A string is the sequence of its characters; an   *)
(* absent cookie or header is the empty set, a present one a singleton.    *)
(***************************************************************************)
\* the longest x-forwarded-for header of a request
MaxHeaderLen == 3
HeaderChars == {"1", "2", ",", " "}
ForwardedInputs ==
    {{}} \cup {{h} : h \in UNION {[1..n -> HeaderChars] : n \in 0..MaxHeaderLen}}
CookieInputs == {{}, {<<>>}, {<<"a">>}, {<<"b">>}}

NoIdentification == [cookie |-> {}, forwarded |-> {}, identifier |-> <<>>,
                     calls |-> 0]

\* String.prototype.split(',')[0]: the part before the first comma
RECURSIVE FirstEntry(_)
FirstEntry(str) ==
    IF str = <<>> \/ Head(str) = "," THEN <<>>
    ELSE <<Head(str)>> \o FirstEntry(Tail(str))

\* String.prototype.trim, for the blank as the only white space
RECURSIVE TrimStart(_)
TrimStart(str) ==
    IF str # <<>> /\ Head(str) = " " THEN TrimStart(Tail(str)) ELSE str

RECURSIVE TrimEnd(_)
TrimEnd(str) ==
    IF str # <<>> /\ str[Len(str)] = " "
    THEN TrimEnd(SubSeq(str, 1, Len(str) - 1))
    ELSE str

Trim(str) == TrimEnd(TrimStart(str))

\* getIdentifier(request): an empty string is falsy
getIdentifierAddressFirst(cookie, forwarded) ==
    IF \E f \in forwarded : f # <<>>
    THEN Trim(FirstEntry(CHOOSE f \in forwarded : TRUE))
    ELSE IF \E c \in cookie : c # <<>>
    THEN CHOOSE c \in cookie : TRUE
    ELSE <<"unknown">>

getIdentifier(cookie, forwarded) ==
    IF \E c \in cookie : c # <<>>
    THEN CHOOSE c \in cookie : TRUE
    ELSE IF \E f \in forwarded : f # <<>>
    THEN Trim(FirstEntry(CHOOSE f \in forwarded : TRUE))
    ELSE <<"unknown">>

\* the middleware resolves the identifier of a request (line 16);
\* idResult.calls tells the first call from the later ones
Identify(cookie, forwarded) ==
    /\ idResult' = [cookie |-> cookie, forwarded |-> forwarded,
                    identifier |-> getIdentifier(cookie, forwarded),
                    calls |-> IF idResult.calls = 0 THEN 1 ELSE 2]
    /\ UNCHANGED <<now, recordVars, procVars, tokenVars, cacheVars, limitVars,
                   batchVars, intakeVars, gmailVars, oauthVars>>

NextIdentify ==
    \E c \in CookieInputs, f \in ForwardedInputs : Identify(c, f)

(***************************************************************************)
(* GmailService over the shared OAuth client (gmail-service.ts and         *)
(* google-auth.ts lines 169-186, 271-279).  Every mailbox holds one        *)
(* message, m1; a cache key is the tuple of the parts the code joins       *)
(* with "_".                                                               *)
(***************************************************************************)
\* the clock's range while the Gmail operations run
MaxGmailTime == 3
GmailReads == {"getMessageDetails", "listMessages"}
GmailMutations == {"markAsRead", "markAsUnread"}
\* maxResults of a list request: the route's default and a larger limit
MaxResultsInputs == {20, 200}
\* clearInboxCache deletes the list keys of maxResults 1..100
ClearedMaxResults == 100

IdleGmail == [pc |-> "idle", op |-> "none", userEmail |-> "", maxResults |-> 0,
              nested |-> FALSE, used |-> {}, data |-> {}, outcome |-> "none",
              fromCache |-> FALSE]

messageKey(u) == <<"message", u, "m1">>
listKey(u, n) == <<"messages", u, "in:inbox", n>>

\* cache.get(key) of the service's cache: the data, or nothing
Cached(key) ==
    IF CacheLookup(cache, key, now).hit THEN {cache[key].data} ELSE {}

\* cache.set(key, data)
CacheWith(c, key, data) ==
    [x \in DOMAIN c \cup {key} |->
        IF x = key THEN [data |-> data, expires |-> now + ttl] ELSE c[x]]

\* clearInboxCache(u)
clearInboxCache(c, u) ==
    [x \in DOMAIN c \ {listKey(u, i) : i \in 1..ClearedMaxResults} |-> c[x]]

\* The start of an operation.  A read answers from the cache when it can
\* (lines 79-84, 125-130); everything else asks for the Gmail client, which
\* starts a loadTokens call of its own.
GmailBegin(c, u, op, n) ==
    /\ gmail[c].pc \in {"idle", "done"}
    /\ loader[c].pc \in {"idle", "done"}
    /\ loader' = [loader EXCEPT ![c] = IdleLoader]
    /\ LET key == IF op = "listMessages" THEN listKey(u, n) ELSE messageKey(u)
           req == [IdleGmail EXCEPT !.op = op, !.userEmail = u,
                                    !.maxResults = n]
       IN gmail' = [gmail EXCEPT ![c] =
                      IF op \in GmailReads /\ Cached(key) # {}
                      THEN [req EXCEPT !.pc = "done", !.outcome = "ok",
                                       !.data = Cached(key),
                                       !.fromCache = TRUE]
                      ELSE [req EXCEPT !.pc = "auth"]]
    /\ UNCHANGED <<now, client, mailbox, oauth_tokens, issued, recordVars,
                   procVars, cacheVars, limitVars, batchVars, intakeVars,
                   idResult, oauthVars>>

\* getGmailClient -> getAuthenticatedClient: loadTokens(u) is started
GmailLoad(c, dbOk) ==
    /\ gmail[c].pc = "auth"
    /\ loader[c].pc = "idle"
    /\ LoadSelect(c, gmail[c].userEmail, dbOk)

\* getAuthenticatedClient and getGmailClient on what loadTokens returned
\* (lines 171-173, 274-276): null makes getGmailClient throw 'Not
\* authenticated. Please login first.', which the routes answer with 401
\* and requiresAuth
AfterTokensIgnoresNull(g, tokens) == [g EXCEPT !.pc = "touching"]

AfterTokens(g, tokens) ==
    IF tokens = {}
    THEN [g EXCEPT !.pc = "done", !.outcome = "not_authenticated"]
    ELSE [g EXCEPT !.pc = "touching"]

\* getAuthenticatedClient once loadTokens has returned: with tokens, they
\* become the credentials of the shared client (line 175) and the update
\* of last_used is awaited.  `owner` tells whose tokens the client holds.
GotTokens(c) ==
    /\ gmail[c].pc = "auth"
    /\ loader[c].pc = "done"
    /\ gmail' = [gmail EXCEPT ![c] = AfterTokens(gmail[c], loader[c].result)]
    /\ client' = IF gmail'[c].pc = "touching"
                 THEN {[owner |-> gmail[c].userEmail,
                        access_token |-> t.access_token] :
                          t \in loader[c].result}
                 ELSE client
    /\ UNCHANGED <<now, mailbox, tokenVars, recordVars, procVars,
                   cacheVars, limitVars, batchVars, intakeVars, idResult, oauthVars>>

\* The update of last_used is done: getAuthenticatedClient returns the
\* shared client and the Gmail call is sent with the credentials the
\* client holds now.
ApiSend(c) ==
    /\ gmail[c].pc = "touching"
    /\ gmail' = [gmail EXCEPT ![c].pc = "calling", ![c].used = client]
    /\ UNCHANGED <<now, client, mailbox, recordVars, procVars, tokenVars,
                   cacheVars, limitVars, batchVars, intakeVars, idResult, oauthVars>>

\* Gmail serves the call on the mailbox of the credentials it came with
\* (userId 'me'): modify changes the UNREAD label, get and list read it.
ApiServe(c, ok) ==
    /\ gmail[c].pc = "calling"
    /\ \E cred \in gmail[c].used :
          IF ~ok
          THEN /\ gmail' = [gmail EXCEPT ![c].pc = "answered",
                                         ![c].outcome = "error"]
               /\ UNCHANGED mailbox
          ELSE /\ mailbox' =
                     IF gmail[c].op \in GmailMutations
                     THEN [mailbox EXCEPT ![cred.owner] =
                                             (gmail[c].op = "markAsUnread")]
                     ELSE mailbox
               /\ gmail' = [gmail EXCEPT ![c].pc = "answered",
                               ![c].outcome = "ok",
                               ![c].data =
                                  IF gmail[c].op = "getMessageDetails"
                                     \/ gmail[c].nested
                                  THEN {mailbox[cred.owner]} ELSE {}]
    /\ UNCHANGED <<now, client, recordVars, procVars, tokenVars,
                   cacheVars, limitVars, batchVars, intakeVars, idResult, oauthVars>>

\* The answer of Gmail reaches the service.  An error is thrown on.  A
\* mutation deletes the message's key and the inbox list keys (lines
\* 238-243); getMessageDetails caches what it read (line 164);
\* listMessages goes on to getMessageDetails for the listed message, which
\* answers from the cache or asks for the client again (lines 100-113),
\* and caches the list at the end.
ApiReturn(c) ==
    /\ gmail[c].pc = "answered"
    /\ LET g == gmail[c]
           u == g.userEmail
       IN IF g.outcome = "error"
          THEN /\ gmail' = [gmail EXCEPT ![c].pc = "done"]
               /\ UNCHANGED cache
          ELSE IF g.op \in GmailMutations
          THEN /\ cache' = clearInboxCache(MapDelete(cache, messageKey(u)), u)
               /\ gmail' = [gmail EXCEPT ![c].pc = "done"]
          ELSE IF g.op = "getMessageDetails"
          THEN /\ \E d \in g.data :
                     cache' = CacheWith(cache, messageKey(u), d)
               /\ gmail' = [gmail EXCEPT ![c].pc = "done"]
          ELSE IF ~g.nested
          THEN IF Cached(messageKey(u)) # {}
               THEN /\ \E d \in Cached(messageKey(u)) :
                          cache' = CacheWith(cache, listKey(u, g.maxResults), d)
                    /\ gmail' = [gmail EXCEPT ![c].pc = "done",
                                    ![c].data = Cached(messageKey(u))]
               ELSE /\ gmail' = [gmail EXCEPT ![c].pc = "auth",
                                              ![c].nested = TRUE]
                    /\ UNCHANGED cache
          ELSE /\ \E d \in g.data :
                     cache' = CacheWith(CacheWith(cache, messageKey(u), d),
                                        listKey(u, g.maxResults), d)
               /\ gmail' = [gmail EXCEPT ![c].pc = "done"]
    /\ loader' = IF gmail'[c].pc = "auth"
                 THEN [loader EXCEPT ![c] = IdleLoader] ELSE loader
    /\ UNCHANGED <<now, client, mailbox, lastSet, lastGet, oauth_tokens,
                   issued, recordVars, procVars, limitVars, batchVars,
                   intakeVars, idResult, oauthVars>>

\* markAsRead calls of both users next to the token store; a user
\* authenticates once
NextGmail ==
    \/ Tick(MaxGmailTime)
    \/ \E u \in Principals \ DOMAIN oauth_tokens : AuthCallback(u, TRUE)
    \/ \E c \in Callers, u \in Principals : GmailBegin(c, u, "markAsRead", 0)
    \/ \E c \in Callers : GmailLoad(c, TRUE)
    \/ \E c \in Callers, ok \in BOOLEAN : LoadRefreshed(c, ok)
    \/ \E c \in Callers : LoadSaved(c, TRUE)
    \/ \E c \in Callers : GotTokens(c)
    \/ \E c \in Callers : ApiSend(c)
    \/ \E c \in Callers, ok \in BOOLEAN : ApiServe(c, ok)
    \/ \E c \in Callers : ApiReturn(c)

\* the reads and mutations of one user over the service's cache
NextInbox ==
    \/ \E u \in {"a@x"} \ DOMAIN oauth_tokens : AuthCallback(u, TRUE)
    \/ \E c \in Callers, op \in GmailMutations \cup {"getMessageDetails"} :
          GmailBegin(c, "a@x", op, 0)
    \/ \E c \in Callers, n \in MaxResultsInputs :
          GmailBegin(c, "a@x", "listMessages", n)
    \/ \E c \in Callers : GmailLoad(c, TRUE)
    \/ \E c \in Callers : GotTokens(c)
    \/ \E c \in Callers : ApiSend(c)
    \/ \E c \in Callers, ok \in BOOLEAN : ApiServe(c, ok)
    \/ \E c \in Callers : ApiReturn(c)

(***************************************************************************)
(* Progress of the calls.  The pipeline and loadTokens suspend at their    *)
(* awaits: fetch / axios.post to the AI backend (process-email lines 90,   *)
(* 120, 169; process lines 119, 150; part_019 lines 46, 69, 116), the      *)
(* refresh call to the token endpoint (google-auth.ts line 158) and the    *)
(* Supabase upsert.  None of the calls is given a timeout, so a handler    *)
(* goes on only when the answer arrives; the model has no timer step       *)
(* because the code arms none.  Supabase is taken to answer; the AI        *)
(* backend and the token endpoint may stay silent.                         *)
(***************************************************************************)
\* one pipeline execution next to the loadTokens calls of one caller
NextLive ==
    \/ NextProc
    \/ Tick(MaxTokenTime)
    \/ AuthCallback("a@x", TRUE)
    \/ LoadSelect(1, "a@x", TRUE)
    \/ \E ok \in BOOLEAN : LoadRefreshed(1, ok)
    \/ \E ok \in BOOLEAN : LoadSaved(1, ok)

\* the process-email handlers next to the process-batch handlers, the
\* latter with requests of one email at most
NextProcess ==
    \/ NextProc
    \/ \E r \in BatchRoutes, emails \in {b \in BatchInputs : Len(b) <= 1},
          ok \in BOOLEAN : BatchStart(r, emails, ok)
    \/ \E o \in {"ok", "not_ok", "throw"} : BatchItem(o)

\* Supabase answers the upsert of saveTokens
SupabaseAnswers == \E ok \in BOOLEAN : LoadSaved(1, ok)

(***************************************************************************)
(* The Gmail OAuth flow: GET /api/auth/gmail (initiation) and the callback *)
(* route.  session.state is the state token of the authorization URL the   *)
(* initiation answered with, session.cookie the gmail_auth_email cookie,   *)
(* session.callback the last callback request and its answer.              *)
(***************************************************************************)
StateTokens == {"s1", "s2"}
\* the state parameter of a callback request: absent, or a token
StateInputs == {{}} \cup {{t} : t \in StateTokens}

NoCallback == [status |-> 0, state |-> {}, saved |-> FALSE]
NoSession == [cookie |-> {}, state |-> {}, callback |-> NoCallback]

\* The initiation route for the logged-in user u.  testConnection loads
\* the user's tokens (here: not expired) into the shared client; when the
\* Gmail profile call succeeds the route answers 'Gmail already
\* connected'.  Otherwise it answers with the authorization URL, which
\* carries the fresh state token t (getAuthUrl), and sets the cookie.
AuthInitiate(u, t, connected) ==
    /\ u \in DOMAIN oauth_tokens => ~Expired(oauth_tokens[u], now)
    /\ connected => u \in DOMAIN oauth_tokens
    /\ client' = IF u \in DOMAIN oauth_tokens
                 THEN {[owner |-> u,
                        access_token |-> oauth_tokens[u].access_token]}
                 ELSE client
    /\ session' = IF connected THEN session
                  ELSE [session EXCEPT !.cookie = {u}, !.state = {t}]
    /\ UNCHANGED <<now, gmail, mailbox, recordVars, procVars, tokenVars,
                   cacheVars, limitVars, batchVars, intakeVars, idResult>>

\* what the callback route requires of its request before it exchanges
\* the code (lines 100-124): no error parameter, a code, the cookie
CallbackStatus(sess, hasCode, state, error) ==
    IF error \/ ~hasCode THEN 400
    ELSE IF sess.cookie = {} THEN 401
    ELSE 200

\* The callback route.  `ok` is whether the code exchange, the profile
\* call and the upsert all succeed (any failure is caught: 500, nothing
\* saved).  On success the tokens are saved for the user of the cookie and
\* the cookie is deleted.
Callback(hasCode, state, error, ok) ==
    LET st == CallbackStatus(session, hasCode, state, error)
        saves == st = 200 /\ ok /\ issued < MaxIssued
    IN  /\ session' = [session EXCEPT
              !.callback = [status |-> IF st # 200 THEN st
                                       ELSE IF saves THEN 200 ELSE 500,
                            state |-> state, saved |-> saves],
              !.cookie = IF saves THEN {} ELSE @]
        /\ IF saves
           THEN /\ issued' = issued + 1
                /\ \E u \in session.cookie :
                      oauth_tokens' = Upsert(oauth_tokens, u,
                                             NewToken(issued + 1, now, TRUE))
           ELSE UNCHANGED <<issued, oauth_tokens>>
        /\ UNCHANGED <<now, loader, gmailVars, recordVars, procVars,
                       cacheVars, limitVars, batchVars, intakeVars, idResult>>

NextOAuth ==
    \/ \E u \in Principals, t \in StateTokens, c \in BOOLEAN :
          AuthInitiate(u, t, c)
    \/ \E hasCode \in BOOLEAN, state \in StateInputs, error \in BOOLEAN,
          ok \in BOOLEAN : Callback(hasCode, state, error, ok)

(***************************************************************************)
(* Initial state                                                           *)
(***************************************************************************)
Init ==
    /\ now = 1
    /\ llm_responses = <<>>
    /\ sendReq = [e \in EmailIdInputs |-> IdleSend]
    /\ approveRes = [status |-> 0, success |-> FALSE]
    /\ proc = IdleProc
    /\ oauth_tokens = <<>>
    /\ issued = 0
    /\ loader = [c \in Callers |-> IdleLoader]
    /\ cache = <<>>
    /\ lastSet = [k \in CacheKeys |-> {}]
    /\ lastGet = [k \in CacheKeys |-> {}]
    /\ store = [n \in LimiterNames |-> <<>>]
    /\ uncleaned = [n \in LimiterNames |-> <<>>]
    /\ lastCheck = <<>>
    /\ window = <<>>
    /\ mwResponse = NoResponse
    /\ batch = IdleBatch
    /\ processed_emails = <<>>
    /\ notif = [x \in Notifications |-> IdleNotif]
    /\ historyId = 0
    /\ idResult = NoIdentification
    /\ client = {}
    /\ gmail = [c \in Callers |-> IdleGmail]
    /\ mailbox = [u \in Principals |-> TRUE]
    /\ session = NoSession

SpecRecords == Init /\ [][NextRecords]_vars

SpecProc == Init /\ [][NextProc]_vars

SpecPipeline == Init /\ [][NextPipeline]_vars

SpecToken == Init /\ [][NextToken]_vars

SpecCache == Init /\ [][NextCache]_vars

SpecLimit == Init /\ [][NextLimit]_vars

SpecGmail == Init /\ [][NextGmail]_vars

SpecInbox == Init /\ [][NextInbox]_vars

SpecKeys == Init /\ [][NextKeys]_vars

SpecOAuth == Init /\ [][NextOAuth]_vars

SpecProcess == Init /\ [][NextProcess]_vars

SpecLive == Init /\ [][NextLive]_vars /\ WF_vars(SupabaseAnswers)

SpecBatch == Init /\ [][NextBatch]_vars

SpecIntake == Init /\ [][NextIntake]_vars

SpecIdentify == Init /\ [][NextIdentify]_vars

(***************************************************************************)
(* Claims about approve and send                                           *)
(***************************************************************************)
\* C1: in every reachable state of the table, whatever Approve and Send
\* calls were made and in whatever order, a row with sent = true has
\* approved = true.
C1_SentImpliesApproved ==
    \A e \in DOMAIN llm_responses :
        llm_responses[e].sent => llm_responses[e].approved

\* a row that an Approve call and a Send call have both acted on
C1_Witness ==
    \E e \in DOMAIN llm_responses :
        /\ llm_responses[e].sent /\ llm_responses[e].approved
        /\ sendReq[e].status = 200
        /\ approveRes.status = 200

\* C6: a Send whose fetch found the row already sent changes nothing in
\* that row: sent, sent_at and the other columns stay as they were.
C6_SendOnSentIsNoOp ==
    [][\A e \in EmailIds :
          (/\ sendReq[e].pc = "fetched"
           /\ \E r \in sendReq[e].response : r.sent
           /\ sendReq'[e].pc = "done")
          => llm_responses'[e] = llm_responses[e]]_vars

\* C7: a row's sent flag is raised only by a Send call whose transport
\* collaborator reported a successful delivery.
C7_SentOnlyAfterDelivery ==
    [][\A e \in DOMAIN llm_responses :
          (~llm_responses[e].sent /\ llm_responses'[e].sent)
          => sendReq'[e].transport = "ok"]_vars

\* C8: a Send that completes with success on an existing row (approved
\* before or not) leaves the row approved and sent; a Send for an email_id
\* without a row answers 404 and changes no row.
C8_SendAutoApproves ==
    [][\A e \in EmailIds :
          /\ (sendReq[e].pc = "fetched" /\ sendReq'[e].status = 200)
             => /\ e \in DOMAIN llm_responses'
                /\ llm_responses'[e].approved
                /\ llm_responses'[e].sent
          /\ (sendReq[e].pc # "fetched" /\ sendReq'[e] # sendReq[e]
              /\ e \notin DOMAIN llm_responses)
             => /\ sendReq'[e].status = 404
                /\ llm_responses' = llm_responses]_vars

\* a Send succeeded on a row its fetch had found unapproved and unsent, and
\* a Send for an email_id without a row was answered 404
C8_Witness ==
    \E e \in DOMAIN llm_responses :
        /\ sendReq[e].status = 200
        /\ sendReq[e].response = {[approved |-> FALSE, sent |-> FALSE]}
        /\ llm_responses[e].approved /\ llm_responses[e].sent
        /\ \E x \in EmailIds \ DOMAIN llm_responses : sendReq[x].status = 404

\* the columns of a row that a repeated Approve must leave alone
ApprovalColumns(row) ==
    <<row.approved, row.suggested_body, row.sent, row.sent_at>>

\* C17: in every state of the table, a successful Approve(e, body)
\* followed by the same Approve, at that time or later and with nothing
\* else in between, leaves approved, suggested_body, sent and sent_at of
\* every row as the first call left them, and adds or removes no row.
C17_ApproveIsIdempotent ==
    \A e \in EmailIds, b \in BodyInputs :
        \A t \in now..(MaxRecordTime + 1) :
            LET first == ApprovedTable(llm_responses, e, b, now)
                again == ApprovedTable(first, e, b, t)
            IN /\ DOMAIN again = DOMAIN first
               /\ \A x \in DOMAIN again :
                     ApprovalColumns(again[x]) = ApprovalColumns(first[x])

\* an Approve with an edited body succeeded on a row, after the time the
\* row was drafted, and the row is not sent
C17_Witness ==
    /\ approveRes.status = 200
    /\ \E e \in DOMAIN llm_responses :
          /\ llm_responses[e].approved
          /\ llm_responses[e].suggested_body = "edited"
          /\ ~llm_responses[e].sent
          /\ llm_responses[e].updated_at > 1

\* C18: an Approve for an email_id that has no row answers with a failure
\* and leaves the table as it was.
C18_ApproveNeedsRecord ==
    [][\A e \in EmailIds, b \in BodyInputs, ok \in BOOLEAN :
          (Approve(e, b, ok) /\ e \notin DOMAIN llm_responses)
          => /\ ~approveRes'.success
             /\ approveRes'.status # 200
             /\ llm_responses' = llm_responses]_vars

(***************************************************************************)
(* Claims about the process-email pipeline                                 *)
(***************************************************************************)
Failure(result) == result.status # 200 \/ result.success = "false"

\* C2: an execution whose classification names no product issues no
\* generation call and answers with generated_response = none, whatever
\* is_support and is_tracking are.
C2_NoProductNoGeneration ==
    \A c \in proc.classification :
        ~c.product_name =>
            /\ "generate" \notin Range(proc.calls)
            /\ proc.result.generated_response = "null"

\* C9: once the classification call has failed (non-2xx answer, or the
\* call rejected), the execution is finished: it has issued no tracking
\* call and no generation call, and it answers with a failure.
C9_ClassificationIsMandatory ==
    proc.clsOutcome \in {"not_ok", "throw"} =>
        /\ proc.pc = "done"
        /\ "tracking" \notin Range(proc.calls)
        /\ "generate" \notin Range(proc.calls)
        /\ Failure(proc.result)

\* executions of each route ended by a failed classification call
C9_Witness ==
    /\ proc.clsOutcome \in {"not_ok", "throw"}
    /\ Len(proc.calls) = 1
    /\ proc.result.status \in {429, 500}

\* C10: after a tracking lookup that threw, answered non-2xx or found
\* nothing, the pipeline goes on with trackingData = none: its next step is
\* the generation call, and if it ends in a failure then the generation
\* call is what failed.
C10_TrackingIsOptional ==
    proc.trackOutcome \in {"throw", "not_ok", "not_found"} =>
        /\ proc.trackingData = "null"
        /\ proc.pc \in {"generate", "done"}
        /\ proc.pc = "done" =>
              /\ proc.calls = <<"classify", "tracking", "generate">>
              /\ Failure(proc.result) <=> proc.genOutcome \in {"not_ok", "throw"}
              /\ ~Failure(proc.result) =>
                    /\ proc.result.tracking = "null"
                    /\ proc.result.generated_response = "response"

\* an execution completed with a response after its tracking call failed
C10_Witness ==
    /\ proc.trackOutcome \in {"throw", "not_ok"}
    /\ proc.pc = "done"
    /\ proc.result.success = "true"
    /\ proc.result.generated_response = "response"

\* C11: when the gate holds and the generation call has failed (non-2xx
\* answer, or the call rejected), the answer carries the classification
\* and the tracking data that were obtained, generated_response = none and
\* an error.
C11_GenerationFailureKeepsClassification ==
    (/\ proc.pc = "done"
     /\ Gate(proc.classification)
     /\ proc.genOutcome \in {"not_ok", "throw"})
    => /\ proc.result.classification = proc.classification
       /\ proc.result.tracking = proc.trackingData
       /\ proc.result.generated_response = "null"
       /\ proc.result.error

\* C13: a valid Process request for an email whose response is already
\* sent is answered at once from that record: the execution is finished
\* with a 200 answer and has issued no upstream call, so no classification,
\* tracking or generation call is made for it.
C13_SentIsNotReprocessed ==
    [][\A r \in ProcRoutes, e \in EmailIds :
          (/\ Start(r, "ok", e)
           /\ e \in DOMAIN llm_responses
           /\ llm_responses[e].sent)
          => /\ proc'.pc = "done"
             /\ proc'.calls = <<>>
             /\ proc'.result.status = 200]_vars

\* the position of an upstream call in the pipeline; the llm route's
\* processing call stands where the classification call does
CallRank(call) ==
    CASE call \in {"classify", "process"} -> 1
      [] call = "tracking"                -> 2
      [] OTHER                            -> 3

\* C12: the upstream calls an execution has issued are in the order
\* classify, tracking, generate with none repeated; a tracking call is
\* issued only after the classification was received, and a generation
\* call only after the tracking call finished or was skipped.
C12_CallsAreSequential ==
    /\ \A i, j \in DOMAIN proc.calls :
          i < j => CallRank(proc.calls[i]) < CallRank(proc.calls[j])
    /\ "tracking" \in Range(proc.calls) =>
          /\ proc.clsOutcome = "ok"
          /\ proc.calls[1] = "classify"
    /\ "generate" \in Range(proc.calls) =>
          /\ proc.clsOutcome = "ok"
          /\ "tracking" \in Range(proc.calls) <=> proc.trackOutcome # "none"
          /\ (proc.route # "llm" /\ \E c \in proc.classification : c.is_tracking)
                => proc.trackOutcome # "none"

\* an execution that issued the three calls, its tracking call failing
C12_Witness ==
    /\ proc.calls = <<"classify", "tracking", "generate">>
    /\ proc.trackOutcome \in {"not_ok", "throw"}
    /\ proc.pc = "done"

RECURSIVE Listed(_, _, _)
Listed(b, k, outcomes) ==
    IF k = 0 THEN <<>>
    ELSE IF b.attempts[k].outcome \in outcomes
         THEN Append(Listed(b, k - 1, outcomes), b.emails[k])
         ELSE Listed(b, k - 1, outcomes)

\* C16: a batch of n >= 1 emails ends with a 200 answer after exactly
\* one call per email, made in the order of the batch; the emails whose
\* call succeeded are the processed list, the others are the failed list
\* with their email_id and an error, so processed + failed = total = n;
\* until then every item up to the current one has been tried once,
\* whatever the outcomes of the items before it.
C16_BatchIsolatesFailures ==
    LET n == Len(batch.emails)
        k == Len(batch.attempts)
    IN  batch.emails # <<>> =>
           /\ k = batch.idx - 1
           /\ \A i \in 1..k : batch.attempts[i].index = i
           /\ [i \in 1..Len(batch.results) |-> batch.results[i].email_id]
                 = Listed(batch, k, {"ok"})
           /\ [i \in 1..Len(batch.errors) |-> batch.errors[i].email_id]
                 = Listed(batch, k, {"not_ok", "throw"})
           /\ \A i \in DOMAIN batch.errors : batch.errors[i].error # ""
           /\ batch.pc = "done" <=> k = n
           /\ batch.pc = "done" =>
                 /\ batch.response.status = 200 /\ batch.response.success
                 /\ batch.response.total = n
                 /\ batch.response.processed = Len(batch.results)
                 /\ batch.response.failed = Len(batch.errors)
                 /\ batch.response.processed + batch.response.failed
                       = batch.response.total

\* a batch whose first item's call rejected and whose last item was
\* processed, with an item listed as failed after a non-2xx answer
C16_Witness ==
    /\ batch.pc = "done"
    /\ Len(batch.emails) = MaxBatch
    /\ batch.attempts[1].outcome = "throw"
    /\ batch.attempts[MaxBatch].outcome = "ok"
    /\ \E i \in DOMAIN batch.attempts : batch.attempts[i].outcome = "not_ok"
    /\ batch.response.processed >= 1 /\ batch.response.failed >= 2

(***************************************************************************)
(* Claims about the token store, the rate limiter and the cache            *)
(***************************************************************************)
\* C3: concurrent loadTokens calls for one user whose stored token is
\* expired collapse into one refresh: at no time are two refresh calls to
\* the token endpoint in flight for the same user.
C3_SingleFlightRefresh ==
    \A u \in Principals :
        Cardinality({c \in Callers : /\ loader[c].pc = "refreshing"
                                     /\ loader[c].userEmail = u}) <= 1

\* C22: a loadTokens call that finds the stored token already expired
\* does not hand that token to its caller: it goes on to a refresh or
\* returns null, also when the row has no refresh token.
C22_NoStaleCredential ==
    [][\A c \in Callers :
          (\E u \in Principals, ok \in BOOLEAN : LoadSelect(c, u, ok))
          => \A r \in loader'[c].result :
                ~(r.expiry_date # 0 /\ r.expiry_date < now)]_vars

\* C23: the save that ends a refresh stores the refreshed token as a
\* whole row, and it never replaces the token stored by another refresh
\* that the token endpoint answered later (the tokens are numbered in the
\* order of their issue): an earlier refresh does not undo a later one.
C23_RefreshIsNotOverwritten ==
    [][\A c \in Callers :
          (loader[c].pc = "saving" /\ loader'[c].pc = "done"
           /\ loader'[c].result # {})
          => LET u == loader[c].userEmail
             IN /\ {oauth_tokens'[u]} = loader[c].refreshed
                /\ \A c2 \in Callers \ {c} :
                      (/\ u \in DOMAIN oauth_tokens
                       /\ loader[c2].pc = "done"
                       /\ loader[c2].userEmail = u
                       /\ loader[c2].refreshed = {oauth_tokens[u]})
                      => \A t \in loader[c].refreshed :
                            oauth_tokens[u].access_token < t.access_token]_vars

\* C4: for a limiter of capacity N and one (identity, route) pair, a check
\* is allowed exactly when it is among the first N calls of its window, so
\* the (N+1)-th call of a window is denied; and the first call after the
\* window's reset time is allowed with remaining = N - 1.
C4_RateLimitBoundary ==
    [][\A i \in Identifiers, r \in Routes :
          RateCheck(i, r) =>
             LET key == getKey(i, r)
                 N == uniqueTokenPerInterval(getRateLimiter(r))
                 w == window'[key]
                 res == lastCheck'[key]
             IN /\ res.success <=> w.calls <= N
                /\ w.calls = 1 => res.remaining = N - 1
                /\ w.calls = N + 1 => ~res.success]_vars

\* one pair was just denied on the (N+1)-th call of its window while
\* another pair's last call opened a new window after a reset
C4_Witness ==
    \E i \in Identifiers, r1, r2 \in Routes :
        LET k1 == getKey(i, r1)
            k2 == getKey(i, r2)
        IN /\ k1 \in DOMAIN lastCheck /\ k2 \in DOMAIN lastCheck
           /\ ~lastCheck[k1].success
           /\ window[k1].calls = uniqueTokenPerInterval(getRateLimiter(r1)) + 1
           /\ window[k2].reopened /\ window[k2].calls = 1
           /\ lastCheck[k2].success
           /\ lastCheck[k2].remaining =
                 uniqueTokenPerInterval(getRateLimiter(r2)) - 1

\* C19: a request the limiter denies is answered 429 with the reset time
\* of the key's running window (in the X-RateLimit-Reset header, and as
\* the Retry-After delay), it is not passed on to the session update and
\* the route handler, and the limiter keeps nothing of it: its store is as
\* it was before the request.
C19_DenialIsRetryableFailure ==
    [][\A i \in Identifiers, r \in Routes :
          LET name == getRateLimiter(r)
              key == getKey(i, r)
          IN (RateCheck(i, r) /\ ~lastCheck'[key].success)
             => /\ mwResponse'.status = 429
                /\ ~mwResponse'.forwarded
                /\ \A h \in mwResponse'.headers :
                      h.reset = store[name][key].resetTime
                /\ mwResponse'.headers # {}
                /\ mwResponse'.retryAfter = {store[name][key].resetTime - now}
                /\ store' = store]_vars

\* a request that was denied one tick before its window's reset time
C19_Witness ==
    /\ mwResponse.status = 429
    /\ mwResponse.retryAfter = {1}
    /\ \E k \in DOMAIN lastCheck : ~lastCheck[k].success /\ lastCheck[k].at = now

\* C20: a check made after the reset time of the key's previous window
\* opens a new window: the call is allowed and counted as its first, and
\* the window's reset time is the time of that call plus the interval,
\* however long the key was idle.  A check made within the window leaves
\* its reset time as it is.
C20_WindowStartsAtFirstRequest ==
    [][\A i \in Identifiers, r \in Routes :
          LET name == getRateLimiter(r)
              key == getKey(i, r)
          IN (RateCheck(i, r) /\ key \in DOMAIN lastCheck)
             => IF lastCheck[key].reset < now
                THEN /\ store'[name][key] =
                           [count |-> 1, resetTime |-> now + interval]
                     /\ lastCheck'[key].success
                     /\ lastCheck'[key].reset = now + interval
                ELSE /\ store'[name][key].resetTime = lastCheck[key].reset
                     /\ lastCheck'[key].reset = lastCheck[key].reset]_vars

\* a key whose new window was just opened after two idle ticks or more
C20_Witness ==
    \E k \in DOMAIN lastCheck :
        /\ window[k].reopened /\ window[k].calls = 1
        /\ lastCheck[k].at = now
        /\ lastCheck[k].at >= interval + 3
        /\ lastCheck[k].reset = now + interval

\* all the characters of str are blanks
Blank(str) == \A i \in DOMAIN str : str[i] = " "

\* id is the first entry of the header: what stands before the first
\* comma, without the blanks around it
IsFirstAddress(id, header) ==
    /\ \A i \in DOMAIN id : id[i] # ","
    /\ id # <<>> => id[1] # " " /\ id[Len(id)] # " "
    /\ \E i \in 0..Len(header), j \in 0..Len(header) :
          /\ i + Len(id) + j <= Len(header)
          /\ Blank(SubSeq(header, 1, i))
          /\ SubSeq(header, i + 1, i + Len(id)) = id
          /\ Blank(SubSeq(header, i + Len(id) + 1, i + Len(id) + j))
          /\ \/ i + Len(id) + j = Len(header)
             \/ header[i + Len(id) + j + 1] = ","

C27_ClientCarriesOwnCredentials ==
    \A c \in Callers :
        \A cred \in gmail[c].used : cred.owner = gmail[c].userEmail

\* C25: once every mutation of a message that Gmail has carried out has
\* returned to its caller, a read that answers from the cache returns the
\* message as the mailbox holds it, for the message key and for every list
\* key, also when other reads were in flight during the mutation.
C25_NoStaleReadAfterMutation ==
    [][\A c \in Callers :
          (/\ gmail[c].pc \in {"idle", "done"}
           /\ gmail'[c] # gmail[c]
           /\ gmail'[c].fromCache
           /\ \A c2 \in Callers :
                 ~(/\ gmail[c2].op \in GmailMutations
                   /\ gmail[c2].pc = "answered"
                   /\ gmail[c2].outcome = "ok"))
          => gmail'[c].data = {mailbox[gmail'[c].userEmail]}]_vars

\* C26: every pipeline execution that has started and every loadTokens
\* call that has started a refresh returns in the end, also when the AI
\* backend or the token endpoint never answers.
C26_EveryCallReturns ==
    /\ (proc.pc \in {"classify", "tracking", "generate"}) ~> (proc.pc = "done")
    /\ (loader[1].pc \in {"refreshing", "saving"}) ~> (loader[1].pc = "done")

\* C28: an execution of the webhook or Express route calls the tracking
\* service exactly when its classification has is_tracking, and the key of
\* the call is the order id when the classification has extracted one and
\* the sender address otherwise.
C28_TrackingCallAndKey ==
    proc.route \in {"webhook", "express"} =>
        /\ "tracking" \in Range(proc.calls) =>
              \E c \in proc.classification : c.is_tracking
        /\ (/\ proc.clsOutcome = "ok" /\ proc.pc \in {"generate", "done"}
            /\ \E c \in proc.classification : c.is_tracking)
           => "tracking" \in Range(proc.calls)
        /\ proc.trackingKey # "none" =>
              \A c \in proc.classification :
                 proc.trackingKey = IF c.extracted_order_id THEN "order_id"
                                    ELSE "sender_email"

\* C29: approving a stored response with an edited body, the empty body
\* included, makes that body the suggested body; approving without one
\* keeps the suggested body; either way the row is approved and its sent
\* and sent_at columns (and the columns no handler writes) are as before.
C29_ApproveWritesTheEditedBody ==
    \A e \in DOMAIN llm_responses, b \in BodyInputs :
        LET row == llm_responses[e]
            after == ApprovedTable(llm_responses, e, b, now)[e]
        IN /\ after.suggested_body = IF b = NoBody THEN row.suggested_body
                                     ELSE b
           /\ after.approved
           /\ after.sent = row.sent
           /\ after.sent_at = row.sent_at
           /\ after.email_id = row.email_id

\* C30: a process-email request without one of its required fields, and a
\* process-batch request with a body but without emails, is answered 400
\* at once, with no upstream call made for it.
C30_InvalidRequestIsRejected ==
    /\ proc.request = "invalid" =>
          /\ proc.pc = "done"
          /\ proc.result.status = 400
          /\ proc.calls = <<>>
    /\ (batch.route # "none" /\ batch.emails = <<>>) =>
          /\ batch.pc = "done"
          /\ batch.attempts = <<>>
          /\ batch.response.status \in {400, 500}
          /\ batch.response.status = 500 => batch.route = "next"
    /\ proc.result.status = 400 => proc.request = "invalid"
    /\ batch.response.status = 400 => batch.emails = <<>>

\* a request with an email_id but without another required field, and a
\* batch request without emails, have both been answered 400
C30_Witness ==
    /\ proc.pc = "done" /\ proc.result.status = 400 /\ proc.email_id # ""
    /\ proc.calls = <<>>
    /\ batch.pc = "done" /\ batch.response.status = 400
    /\ batch.attempts = <<>>

\* C31: the OAuth callback saves tokens only for a request whose state
\* parameter is the state token of the session's authorization URL; a
\* callback without a state, or with another one, saves nothing.
C31_CallbackChecksState ==
    [][oauth_tokens' # oauth_tokens =>
          /\ session'.callback.state # {}
          /\ session'.callback.state = session.state]_vars

\* C32: every stored entry of a limiter has 1 <= count <= capacity; an
\* allowed check returns remaining = capacity - count, with the count as
\* the check left it; a denied check returns remaining = 0 and leaves the
\* limiter's store (count and resetTime of the key) as it was.
C32_CountWithinCapacity ==
    [][/\ \A n \in LimiterNames : \A k \in DOMAIN store'[n] :
             /\ 1 <= store'[n][k].count
             /\ store'[n][k].count <= uniqueTokenPerInterval(n)
       /\ \A i \in Identifiers, r \in Routes :
             LET key == getKey(i, r)
                 n == getRateLimiter(r)
             IN (/\ key \in DOMAIN lastCheck'
                 /\ key \in DOMAIN lastCheck => lastCheck'[key] # lastCheck[key])
                => LET res == lastCheck'[key]
                   IN IF res.success
                      THEN /\ key \in DOMAIN store'[n]
                           /\ res.remaining = uniqueTokenPerInterval(n)
                                                 - store'[n][key].count
                      ELSE /\ res.remaining = 0
                           /\ store'[n] = store[n]]_vars

\* one key has just been denied with its count at the capacity, another
\* was allowed with requests left
C32_Witness ==
    \E i \in Identifiers, r1, r2 \in Routes :
        LET k1 == getKey(i, r1)
            k2 == getKey(i, r2)
        IN /\ k1 \in DOMAIN lastCheck /\ k2 \in DOMAIN lastCheck
           /\ ~lastCheck[k1].success /\ lastCheck[k1].remaining = 0
           /\ k1 \in DOMAIN store[getRateLimiter(r1)]
           /\ store[getRateLimiter(r1)][k1].count
                 = uniqueTokenPerInterval(getRateLimiter(r1))
           /\ lastCheck[k2].success /\ lastCheck[k2].remaining > 0

\* C33: a check for one (identifier, route) pair leaves the entry of every
\* other pair as it was, also when identifiers or routes contain ':'.
C33_PairsAreIsolated ==
    [][\A i \in SeparatorIdentifiers, r \in SeparatorRoutes :
          RateCheck(i, r) =>
             \A i2 \in SeparatorIdentifiers, r2 \in SeparatorRoutes :
                <<i2, r2>> # <<i, r>> =>
                   Entry(store', i2, r2) = Entry(store, i2, r2)]_vars

\* C36: the periodic cleanup is unobservable: after every sequence of
\* check calls and cleanup runs, at every time, the result (success,
\* remaining, reset) of a check call made now or later is the one the same
\* check calls give when cleanup never runs.
C36_CleanupIsUnobservable ==
    \A n \in LimiterNames :
        /\ DOMAIN store[n] \subseteq DOMAIN uncleaned[n]
        /\ \A k \in DOMAIN uncleaned[n], t \in now..(MaxLimitTime + 1) :
              CheckResult(store[n], k, uniqueTokenPerInterval(n), t)
                  = CheckResult(uncleaned[n], k, uniqueTokenPerInterval(n), t)

\* cleanup has deleted the entry of a key that was checked before
C36_Witness ==
    \E n \in LimiterNames : \E k \in DOMAIN uncleaned[n] :
        /\ k \notin DOMAIN store[n]
        /\ k \in DOMAIN lastCheck
        /\ lastCheck[k].at < now

\* C35: sent is a stable terminal state: once a row has sent = TRUE, no
\* later Approve or Send changes its sent flag, its sent_at or its
\* suggested_body.
C35_SentIsTerminal ==
    [][\A e \in DOMAIN llm_responses :
          llm_responses[e].sent
          => /\ e \in DOMAIN llm_responses'
             /\ llm_responses'[e].sent = llm_responses[e].sent
             /\ llm_responses'[e].sent_at = llm_responses[e].sent_at
             /\ llm_responses'[e].suggested_body
                    = llm_responses[e].suggested_body]_vars

\* C34: after removeTokens(u) the user has no stored tokens, and so
\* loadTokens(u) returns none, until an OAuth callback saves new ones: the
\* only step that gives a row to a user without one is the callback, never
\* the save of a loadTokens call that was refreshing when the row was
\* removed.
C34_RemovedStaysRemoved ==
    [][\A u \in Principals :
          (u \notin DOMAIN oauth_tokens /\ u \in DOMAIN oauth_tokens')
          => loader' = loader]_vars

\* C5: a get(key) made less than the TTL after the latest set(key, v) (no
\* delete or clear since) is a hit returning v; a get(key) made more than
\* the TTL after it is a miss; and every hit returns the value of a set
\* that is not older than the TTL.
C5_CacheTtl ==
    [][\A k \in CacheKeys :
          CacheGet(k) =>
             \A g \in lastGet'[k] :
                /\ \A st \in lastSet[k] :
                      /\ now - st.at < ttl => g.hit /\ g.data = st.data
                      /\ now - st.at > ttl => ~g.hit
                /\ g.hit => \E st \in lastSet[k] :
                               now - st.at <= ttl /\ g.data = st.data]_vars

\* one key was just read as a hit within the TTL of its set, another as a
\* miss after the TTL of its set
C5_Witness ==
    \E k1, k2 \in CacheKeys :
        /\ \E g \in lastGet[k1], st \in lastSet[k1] :
              g.hit /\ g.at - st.at < ttl /\ g.at >= st.at
        /\ \E g \in lastGet[k2], st \in lastSet[k2] :
              ~g.hit /\ g.at - st.at > ttl

====
